---- MODULE Spec2Model ----
(***************************************************************************)
(* A model of pacecalc.py: the three quantity parsers, the time formatter, *)
(* calculate_metrics, _is_likely_time and the routing done by main().      *)
(*                                                                         *)
(* Representation.                                                         *)
(*   - A Python str is a sequence of one-character strings, so "10k" is    *)
(*     <<"1","0","k">>.  None is the one-element tuple <<"None">>, which   *)
(*     is no character string.                                             *)
(*   - A Python float is a binary64 number [s, m, e] (sign, significand,   *)
(*     exponent); every operation on floats rounds as IEEE 754 does.       *)
(*     Float(n, d) is the float nearest to n / d, so 1.2 is Float(6, 5).   *)
(*   - A raised exception is a record [kind |-> <exception class>, ...].   *)
(***************************************************************************)
EXTENDS Integers, Sequences, FiniteSets, TLC

(***************************************************************************)
(* Bounds of the explored inputs.                                          *)
(***************************************************************************)
\* longest generated string handed to a single parser / to _is_likely_time
MaxLen == 3
\* largest whole-minute part of a generated value handed to minutes_to_time_str
MaxMinutes == 61

(***************************************************************************)
(* Python evaluates an expression once and binds its value to a name.      *)
(* Below,  CHOOSE r \in {e : v \in {x}} : TRUE  is e with v bound to the    *)
(* value of x, where a LET would bind the expression x itself.  A chain of *)
(* such bindings is laid out with the bindings below the expression, the   *)
(* first one made on the last line.                                        *)
(***************************************************************************)

(***************************************************************************)
(* Natural numbers of any size.  TLC's integers are 32 bits wide and a     *)
(* binary64 significand has 53, so a natural number is kept as the         *)
(* sequence of its digits in base Base, least significant first, with no   *)
(* leading zero digit; <<>> is zero.                                       *)
(***************************************************************************)
Base == 32768

\* bits of a digit
LimbBits == 15

Pow2(k) == 2^k

\* the i-th digit of a, 0 beyond its length
Limb(a, i) == IF i <= Len(a) THEN a[i] ELSE 0

RECURSIVE BNorm(_)
BNorm(a) == IF a # <<>> /\ a[Len(a)] = 0 THEN BNorm(SubSeq(a, 1, Len(a) - 1)) ELSE a

RECURSIVE BOfNat(_)
BOfNat(n) == IF n = 0 THEN <<>> ELSE <<n % Base>> \o BOfNat(n \div Base)

\* the value of a, for a below 2^31
RECURSIVE BToNat(_)
BToNat(a) == IF a = <<>> THEN 0 ELSE a[1] + Base * BToNat(Tail(a))

RECURSIVE BCmpFrom(_, _, _)
BCmpFrom(a, b, i) ==
    IF i = 0 THEN 0
    ELSE IF a[i] < b[i] THEN -1
    ELSE IF a[i] > b[i] THEN 1
    ELSE BCmpFrom(a, b, i - 1)

\* -1, 0 or 1 as a < b, a = b or a > b
BCmp(a, b) ==
    IF Len(a) < Len(b) THEN -1
    ELSE IF Len(a) > Len(b) THEN 1
    ELSE BCmpFrom(a, b, Len(a))

RECURSIVE BAddFrom(_, _, _, _)
BAddFrom(a, b, i, carry) ==
    IF i > Len(a) /\ i > Len(b) THEN (IF carry = 0 THEN <<>> ELSE <<carry>>)
    ELSE CHOOSE r1 \in {<<sum % Base>> \o BAddFrom(a, b, i + 1, sum \div Base)
             : sum \in {Limb(a, i) + Limb(b, i) + carry}} : TRUE

BAdd(a, b) == BAddFrom(a, b, 1, 0)

RECURSIVE BSubFrom(_, _, _, _)
BSubFrom(a, b, i, borrow) ==
    IF i > Len(a) THEN <<>>
    ELSE CHOOSE r1 \in {IF diff < 0 THEN <<diff + Base>> \o BSubFrom(a, b, i + 1, 1)
                        ELSE <<diff>> \o BSubFrom(a, b, i + 1, 0)
             : diff \in {a[i] - Limb(b, i) - borrow}} : TRUE

\* a - b, for a >= b
BSub(a, b) == BNorm(BSubFrom(a, b, 1, 0))

RECURSIVE BMulSmallFrom(_, _, _, _)
BMulSmallFrom(a, k, i, carry) ==
    IF i > Len(a) THEN (IF carry = 0 THEN <<>> ELSE <<carry>>)
    ELSE CHOOSE r1 \in {<<prod % Base>> \o BMulSmallFrom(a, k, i + 1, prod \div Base)
             : prod \in {a[i] * k + carry}} : TRUE

\* a * k, for a digit k
BMulSmall(a, k) == IF k = 0 THEN <<>> ELSE BMulSmallFrom(a, k, 1, 0)

\* a * Base^n
BShiftLimbs(a, n) == IF a = <<>> THEN <<>> ELSE [i \in 1..n |-> 0] \o a

RECURSIVE BMulFrom(_, _, _)
BMulFrom(a, b, i) ==
    IF i > Len(b) THEN <<>>
    ELSE CHOOSE r1 \in {BAdd(BMulSmall(a, b[i]), BShiftLimbs(rest, 1))
             : rest \in {BMulFrom(a, b, i + 1)}} : TRUE

BMul(a, b) == BMulFrom(a, b, 1)

\* a * 2^k
BShl(a, k) == BShiftLimbs(BMulSmall(a, Pow2(k % LimbBits)), k \div LimbBits)

\* floor(a / 2^k)
BShr(a, k) ==
    CHOOSE r1 \in {
    CHOOSE r2 \in {
    CHOOSE r3 \in {
        BNorm(<<>> \o [i \in 1..(Len(a) - n) |->
                  a[i + n] \div lo + (Limb(a, i + n + 1) % lo) * hi])
    : hi \in {Pow2(LimbBits - (k % LimbBits))}} : TRUE
    : lo \in {Pow2(k % LimbBits)}} : TRUE
    : n \in {k \div LimbBits}} : TRUE

\* bit k of a, bit 0 the least significant
BBit(a, k) == (Limb(a, k \div LimbBits + 1) \div Pow2(k % LimbBits)) % 2

\* the k low bits of a are all 0
BLowBitsZero(a, k) ==
    /\ \A i \in 1..(k \div LimbBits) : Limb(a, i) = 0
    /\ Limb(a, k \div LimbBits + 1) % Pow2(k % LimbBits) = 0

RECURSIVE BitLenNat(_)
BitLenNat(n) == IF n = 0 THEN 0 ELSE 1 + BitLenNat(n \div 2)

\* number of bits of a: 0 for zero
BBitLen(a) == IF a = <<>> THEN 0 ELSE LimbBits * (Len(a) - 1) + BitLenNat(a[Len(a)])

\* number of 0 bits below the lowest 1 bit of n > 0
RECURSIVE TrailingZerosNat(_)
TrailingZerosNat(n) == IF n % 2 = 1 THEN 0 ELSE 1 + TrailingZerosNat(n \div 2)

\* the same for a # <<>>, from its i-th digit on
RECURSIVE BTrailingZeros(_, _)
BTrailingZeros(a, i) ==
    IF a[i] = 0 THEN LimbBits + BTrailingZeros(a, i + 1) ELSE TrailingZerosNat(a[i])

\* Long division, one digit of the quotient: rem < b is the remainder so
\* far and x the next digit of the dividend.  The digit is estimated from
\* the two leading digits of rem * Base + x, never too high, and raised
\* while the remainder is not below b.
RECURSIVE BDivCorrect(_, _, _)
BDivCorrect(q, rem, b) ==
    IF BCmp(rem, b) >= 0
    THEN CHOOSE r1 \in {BDivCorrect(q + 1, less, b) : less \in {BSub(rem, b)}} : TRUE
    ELSE <<q, rem>>

BDivDigit(rem, x, b) ==
    CHOOSE r1 \in {
    CHOOSE r2 \in {
    CHOOSE r3 \in {
    CHOOSE r4 \in {
    CHOOSE r5 \in {
        BDivCorrect(est, rem0, b)
    : rem0 \in {BSub(r, BMulSmall(b, est))}} : TRUE
    : est \in {IF n = 1 THEN top \div b[1] ELSE top \div (b[n] + 1)}} : TRUE
    : top \in {Limb(r, n + 1) * Base + Limb(r, n)}} : TRUE
    : n \in {Len(b)}} : TRUE
    : r \in {BNorm(<<x>> \o rem)}} : TRUE

RECURSIVE BDivFrom(_, _, _, _)
BDivFrom(a, b, i, rem) ==
    IF i = 0 THEN [q |-> <<>>, r |-> rem]
    ELSE CHOOSE r1 \in {
         CHOOSE r2 \in {
             [q |-> rest.q \o <<d[1]>>, r |-> rest.r]
         : rest \in {BDivFrom(a, b, i - 1, d[2])}} : TRUE
         : d \in {BDivDigit(rem, a[i], b)}} : TRUE

\* quotient and remainder of a by b # 0.  Both are first scaled to bring
\* the leading digit of b to at least Base / 2, which keeps the estimate of
\* BDivDigit within a few units of the digit.
BDivMod(a, b) ==
    CHOOSE r1 \in {
    CHOOSE r2 \in {
    CHOOSE r3 \in {
    CHOOSE r4 \in {
        [q |-> BNorm(d.q), r |-> BShr(d.r, s)]
    : d \in {BDivFrom(as, bs, Len(as), <<>>)}} : TRUE
    : bs \in {BShl(b, s)}} : TRUE
    : as \in {BShl(a, s)}} : TRUE
    : s \in {LimbBits - BitLenNat(b[Len(b)])}} : TRUE

(***************************************************************************)
(* Python floats (IEEE 754 binary64, round to nearest, ties to even).      *)
(* A float is [s |-> 1 or -1, m |-> significand, e |-> exponent], standing *)
(* for s * m * 2^e, with m odd and of at most 53 bits; zero is FZero.  The *)
(* form is unique, so equal floats are equal records.  Left out: the sign  *)
(* of zero (-0.0 == 0.0 in Python, and no function of the program tells    *)
(* them apart), and the exponent range (infinities, subnormals), which the *)
(* values computed from the inputs of this model stay far from.            *)
(***************************************************************************)
Precision == 53

FZero == [s |-> 1, m |-> <<>>, e |-> 0]

\* s * m * 2^e in unique form, for m of at most 53 bits once its trailing
\* zero bits are dropped
Canon(s, m, e) ==
    CHOOSE r1 \in {
        IF v = <<>> THEN FZero
        ELSE CHOOSE r2 \in {[s |-> s, m |-> BShr(v, z), e |-> e + z]
                 : z \in {BTrailingZeros(v, 1)}} : TRUE
    : v \in {m}} : TRUE

\* The float nearest to s * x * 2^e, where x = m if ~sticky and m < x < m + 1
\* if sticky (then m has more than 54 bits); on a tie, the one whose
\* significand is even.
Round53(s, m, e, sticky) ==
    CHOOSE r1 \in {
        IF BBitLen(v) <= Precision THEN Canon(s, v, e)
        ELSE CHOOSE r2 \in {
             CHOOSE r3 \in {
                 LET half == BBit(v, k - 1) = 1
                     more == sticky \/ ~BLowBitsZero(v, k - 1)
                     up == half /\ (more \/ BBit(q, 0) = 1)
                 IN  Canon(s, IF up THEN BAdd(q, <<1>>) ELSE q, e + k)
             : q \in {BShr(v, k)}} : TRUE
             : k \in {BBitLen(v) - Precision}} : TRUE
    : v \in {m}} : TRUE

\* float(i) for an int i
FOfInt(i) == IF i < 0 THEN Canon(-1, BOfNat(-i), 0) ELSE Canon(1, BOfNat(i), 0)

FNeg(a) == IF a = FZero THEN a ELSE [a EXCEPT !.s = -a.s]

\* the float nearest to s * (n / d) * 2^e, for naturals n and d # 0
RoundedQuotient(s, n, d, e) ==
    IF n = <<>> THEN FZero
    ELSE CHOOSE r1 \in {
         CHOOSE r2 \in {
         CHOOSE r3 \in {
             Round53(s, dm.q, e - k, dm.r # <<>>)
         : dm \in {BDivMod(BShl(n, k), d)}} : TRUE
         : k \in {IF want > 0 THEN want ELSE 0}} : TRUE
         : want \in {Precision + 2 + BBitLen(d) - BBitLen(n)}} : TRUE

\* the float nearest to n / d, for ints n and d > 0: the value of a literal
\* such as 42.195 (42195 / 1000)
Float(n, d) ==
    RoundedQuotient(IF n < 0 THEN -1 ELSE 1, BOfNat(IF n < 0 THEN -n ELSE n), BOfNat(d), 0)

\* the significands of a and b written with the smaller of the two exponents
Aligned(a, b) ==
    CHOOSE r1 \in {[e |-> e, ma |-> BShl(a.m, a.e - e), mb |-> BShl(b.m, b.e - e)]
        : e \in {IF a.e < b.e THEN a.e ELSE b.e}} : TRUE

\* a + b
FAdd(a, b) ==
    CHOOSE r1 \in {
        IF a.s = b.s THEN Round53(a.s, BAdd(x.ma, x.mb), x.e, FALSE)
        ELSE IF BCmp(x.ma, x.mb) >= 0 THEN Round53(a.s, BSub(x.ma, x.mb), x.e, FALSE)
        ELSE Round53(b.s, BSub(x.mb, x.ma), x.e, FALSE)
    : x \in {Aligned(a, b)}} : TRUE

\* a - b
FSub(a, b) == FAdd(a, FNeg(b))

\* a * b
FMul(a, b) == Round53(a.s * b.s, BMul(a.m, b.m), a.e + b.e, FALSE)

\* a / b, for b # 0
FDiv(a, b) == RoundedQuotient(a.s * b.s, a.m, b.m, a.e - b.e)

\* -1, 0 or 1 as a < b, a == b or a > b
FCmp(a, b) ==
    IF a = b THEN 0
    ELSE IF a = FZero THEN -b.s
    ELSE IF b = FZero THEN a.s
    ELSE IF a.s # b.s THEN a.s
    ELSE CHOOSE r1 \in {a.s * BCmp(x.ma, x.mb) : x \in {Aligned(a, b)}} : TRUE

FLt(a, b) == FCmp(a, b) < 0

FLe(a, b) == FCmp(a, b) <= 0

\* math.fmod(a, b), for b # 0: the remainder of the truncating division,
\* with the sign of a; it is exact
FMod(a, b) ==
    CHOOSE r1 \in {Canon(a.s, BDivMod(x.ma, x.mb).r, x.e) : x \in {Aligned(a, b)}} : TRUE

\* math.floor(a), as a float
FFloor(a) ==
    IF a.e >= 0 THEN a
    ELSE IF a.s = 1 THEN Canon(1, BShr(a.m, -a.e), 0)
    ELSE Canon(-1, BAdd(BShr(a.m, -a.e), <<1>>), 0)

Half == Float(1, 2)

\* DivMod returning the dividend as the remainder
DivMod_KeepsDividend(vx, wx) == <<FFloor(FDiv(vx, wx)), vx>>

\* divmod(vx, wx) for floats, wx # 0, as float_divmod of CPython computes it
DivMod(vx, wx) ==
    CHOOSE r1 \in {
    CHOOSE r2 \in {
    CHOOSE r3 \in {
    CHOOSE r4 \in {
    CHOOSE r5 \in {
        << IF div2 = FZero THEN FZero
           ELSE IF FLt(Half, FSub(div2, floor)) THEN FAdd(floor, FOfInt(1))
           ELSE floor,
           IF adjust THEN FAdd(mod, wx) ELSE mod >>
    : floor \in {FFloor(div2)}} : TRUE
    : div2 \in {IF adjust THEN FSub(div, FOfInt(1)) ELSE div}} : TRUE
    : adjust \in {mod # FZero /\ (wx.s < 0) # (mod.s < 0)}} : TRUE
    : div \in {FDiv(FSub(vx, mod), wx)}} : TRUE
    : mod \in {FMod(vx, wx)}} : TRUE

\* int(a): truncation toward zero
PyInt(a) ==
    IF a.e >= 0 THEN a.s * BToNat(BShl(a.m, a.e)) ELSE a.s * BToNat(BShr(a.m, -a.e))

(***************************************************************************)
(* Strings.                                                                *)
(***************************************************************************)
None == <<"None">>

Digits == <<"0", "1", "2", "3", "4", "5", "6", "7", "8", "9">>

IsDigit(c) == \E i \in 1..10 : Digits[i] = c

DigitVal(c) == (CHOOSE i \in 1..10 : Digits[i] = c) - 1

\* str.lower() on one character, for the upper-case letters of the inputs
LowerChar(c) ==
    CASE c = "K" -> "k"
      [] c = "M" -> "m"
      [] c = "H" -> "h"
      [] c = "S" -> "s"
      [] c = "I" -> "i"
      [] OTHER -> c

Lower(s) == [i \in 1..Len(s) |-> LowerChar(s[i])]

IsSpace(c) == c = " "

RECURSIVE LStrip(_)
LStrip(s) == IF s # <<>> /\ IsSpace(Head(s)) THEN LStrip(Tail(s)) ELSE s

RECURSIVE RStrip(_)
RStrip(s) ==
    IF s # <<>> /\ IsSpace(s[Len(s)]) THEN RStrip(SubSeq(s, 1, Len(s) - 1)) ELSE s

\* str.strip()
Strip(s) == RStrip(LStrip(s))

\* x in s, for a one-character x
Contains(s, c) == \E i \in 1..Len(s) : s[i] = c

\* any(x in s for x in letters)
ContainsAny(s, letters) == \E i \in 1..Len(s) : s[i] \in letters

\* s.endswith(u)
EndsWith(s, u) ==
    /\ Len(u) <= Len(s)
    /\ SubSeq(s, Len(s) - Len(u) + 1, Len(s)) = u

\* s.removesuffix(u), used where s.endswith(u)
RemoveSuffix(s, u) == IF EndsWith(s, u) THEN SubSeq(s, 1, Len(s) - Len(u)) ELSE s

\* s.split(sep) for a one-character sep: the list of parts
RECURSIVE Split(_, _)
Split(s, sep) ==
    IF ~Contains(s, sep) THEN <<s>>
    ELSE LET i == CHOOSE k \in 1..Len(s) :
                      s[k] = sep /\ \A j \in 1..(k - 1) : s[j] # sep
         IN  <<SubSeq(s, 1, i - 1)>> \o Split(SubSeq(s, i + 1, Len(s)), sep)

\* str(i) for an integer i
RECURSIVE NatToStr(_)
NatToStr(i) ==
    IF i < 10 THEN <<Digits[i + 1]>>
    ELSE NatToStr(i \div 10) \o <<Digits[(i % 10) + 1]>>

IntToStr(i) == IF i < 0 THEN <<"-">> \o NatToStr(-i) ELSE NatToStr(i)

\* format(i, "02d")
Pad2(i) == IF 0 <= i /\ i < 10 THEN <<"0">> \o NatToStr(i) ELSE IntToStr(i)


(***************************************************************************)
(* float(s), for strings of digits, ".", a sign and surrounding blanks.    *)
(* Exponents, underscores, "inf" and "nan" need characters that no input   *)
(* of the model puts before a parser's float() call.  float() returns the  *)
(* float nearest to the decimal it reads.                                  *)
(***************************************************************************)
\* the natural number a string of digits writes
RECURSIVE DigitsToNat(_)
DigitsToNat(s) ==
    IF s = <<>> THEN <<>>
    ELSE CHOOSE r1 \in {BAdd(BMulSmall(high, 10), BOfNat(DigitVal(s[Len(s)])))
         : high \in {DigitsToNat(SubSeq(s, 1, Len(s) - 1))}} : TRUE

RECURSIVE Pow10(_)
Pow10(k) == IF k = 0 THEN <<1>> ELSE BMulSmall(Pow10(k - 1), 10)

AllDigits(s) == \A i \in 1..Len(s) : IsDigit(s[i])

\* an unsigned decimal: digits, digits.digits, digits. or .digits
IsDecimal(s) ==
    LET parts == Split(s, ".")
    IN  /\ Len(parts) <= 2
        /\ \A i \in 1..Len(parts) : AllDigits(parts[i])
        /\ \E i \in 1..Len(parts) : parts[i] # <<>>

\* the float nearest to sign * the decimal s
DecimalVal(sign, s) ==
    LET parts == Split(s, ".")
        frac == IF Len(parts) = 2 THEN parts[2] ELSE <<>>
    IN  RoundedQuotient(sign, DigitsToNat(parts[1] \o frac), Pow10(Len(frac)), 0)

Unsigned(s) == IF s # <<>> /\ Head(s) \in {"+", "-"} THEN Tail(s) ELSE s

\* float(s) succeeds
IsFloat(s) == IsDecimal(Unsigned(Strip(s)))

\* the value of float(s) where it succeeds
FloatVal(s) ==
    LET t == Strip(s)
    IN  DecimalVal(IF t # <<>> /\ Head(t) = "-" THEN -1 ELSE 1, Unsigned(t))

(***************************************************************************)
(* Results of a call: a returned float, or a raised exception.             *)
(***************************************************************************)
Ok(v) == [kind |-> "ok", val |-> v]

\* raise InputError(unit, input_type)
InputError(unit, input_type) ==
    [kind |-> "InputError", unit |-> unit, input_type |-> input_type]

\* the ValueError that float() raises on a string that is no number
FloatValueError == [kind |-> "ValueError", msg |-> "could not convert string to float"]

(***************************************************************************)
(* PaceCalculator.DISTANCE_UNITS, in insertion order.                      *)
(***************************************************************************)
DISTANCE_UNITS ==
    << [unit |-> <<"m", "i">>, multiplier |-> Float(1609344, 1000000)],
       [unit |-> <<"k", "m">>, multiplier |-> FOfInt(1)],
       [unit |-> <<"k">>, multiplier |-> FOfInt(1)],
       [unit |-> <<"m">>, multiplier |-> Float(42195, 1000)],
       [unit |-> <<"m", "a", "r", "a", "t", "h", "o", "n">>,
        multiplier |-> Float(42195, 1000)],
       [unit |-> <<"h", "m">>, multiplier |-> Float(210975, 10000)],
       [unit |-> <<"h", "a", "l", "f", "-", "m", "a", "r", "a", "t", "h", "o", "n">>,
        multiplier |-> Float(210975, 10000)],
       [unit |-> <<"1", "0", "k">>, multiplier |-> FOfInt(10)],
       [unit |-> <<"5", "k">>, multiplier |-> FOfInt(5)],
       [unit |-> <<"1", "k">>, multiplier |-> FOfInt(1)],
       [unit |-> <<"4", "0", "0", "m">>, multiplier |-> Float(4, 10)],
       [unit |-> <<"8", "0", "0", "m">>, multiplier |-> Float(8, 10)],
       [unit |-> <<"1", "m", "i">>, multiplier |-> Float(1609344, 1000000)] >>

\* key in DISTANCE_UNITS
InUnits(s) == \E i \in 1..Len(DISTANCE_UNITS) : DISTANCE_UNITS[i].unit = s

\* DISTANCE_UNITS[key]
UnitValue(s) ==
    DISTANCE_UNITS[CHOOSE i \in 1..Len(DISTANCE_UNITS) : DISTANCE_UNITS[i].unit = s].multiplier

(***************************************************************************)
(* distance_str_to_km                                                      *)
(***************************************************************************)
\* the plain-number fallback after the loop
DistancePlainNumber(distance) ==
    IF IsFloat(distance) THEN Ok(FloatVal(distance))
    ELSE InputError(distance, "distance")

\* DistanceUnitLoop going on to the next unit when the text before a
\* matching suffix is no number, instead of raising
RECURSIVE DistanceUnitLoop_TryNext(_, _)
DistanceUnitLoop_TryNext(distance, i) ==
    IF i > Len(DISTANCE_UNITS) THEN DistancePlainNumber(distance)
    ELSE IF /\ EndsWith(distance, DISTANCE_UNITS[i].unit)
            /\ IsFloat(RemoveSuffix(distance, DISTANCE_UNITS[i].unit))
         THEN Ok(FMul(FloatVal(RemoveSuffix(distance, DISTANCE_UNITS[i].unit)),
                      DISTANCE_UNITS[i].multiplier))
         ELSE DistanceUnitLoop_TryNext(distance, i + 1)

\* the loop over DISTANCE_UNITS.items(), from the i-th item on
RECURSIVE DistanceUnitLoop(_, _)
DistanceUnitLoop(distance, i) ==
    IF i > Len(DISTANCE_UNITS) THEN DistancePlainNumber(distance)
    ELSE IF EndsWith(distance, DISTANCE_UNITS[i].unit)
         THEN LET value == RemoveSuffix(distance, DISTANCE_UNITS[i].unit)
              IN  IF IsFloat(value)
                  THEN Ok(FMul(FloatVal(value), DISTANCE_UNITS[i].multiplier))
                  ELSE InputError(distance, "distance")
         ELSE DistanceUnitLoop(distance, i + 1)

distance_str_to_km(s) ==
    LET distance == Strip(Lower(s))
    IN  IF InUnits(distance) THEN Ok(UnitValue(distance))
        ELSE DistanceUnitLoop(distance, 1)

(***************************************************************************)
(* time_str_to_minutes                                                     *)
(***************************************************************************)
\* the longest prefix of s made of characters of cs
RECURSIVE TakeWhile(_, _)
TakeWhile(s, cs) ==
    IF s # <<>> /\ Head(s) \in cs THEN <<Head(s)>> \o TakeWhile(Tail(s), cs) ELSE <<>>

DigitSet == {Digits[i] : i \in 1..10}

\* \d+(?:\.\d+)?
IsRegexNumber(s) ==
    LET parts == Split(s, ".")
    IN  /\ Len(parts) \in {1, 2}
        /\ \A i \in 1..Len(parts) : parts[i] # <<>> /\ AllDigits(parts[i])

\* One optional group (?:(<number>)<letter>)? of the pattern, tried at the
\* start of s: the text the group captured (<<>> when the group is skipped)
\* and the rest of s.  The number can only be the whole run of number
\* characters before the letter, so the regex has nothing to backtrack into.
RegexGroup(s, letter, fractional) ==
    LET run == TakeWhile(s, IF fractional THEN DigitSet \cup {"."} ELSE DigitSet)
        wellFormed == IF fractional THEN IsRegexNumber(run) ELSE run # <<>>
    IN  IF wellFormed /\ Len(s) > Len(run) /\ s[Len(run) + 1] = letter
        THEN [group |-> run, rest |-> SubSeq(s, Len(run) + 2, Len(s))]
        ELSE [group |-> <<>>, rest |-> s]

\* float(match.group(name) or 0)
GroupOrZero(g) == IF g = <<>> THEN FZero ELSE FloatVal(g)

\* the floats 60.0 and 1.0, which the ints 60 and 1 become next to a float
Sixty == FOfInt(60)

One == FOfInt(1)

\* hours * 60 + minutes + seconds / 60
HMS(hours, minutes, seconds) ==
    FAdd(FAdd(FMul(hours, Sixty), minutes), FDiv(seconds, Sixty))

\* minutes + seconds / 60
MS(minutes, seconds) == FAdd(minutes, FDiv(seconds, Sixty))

_parse_time_with_letters(time) ==
    LET h == RegexGroup(time, "h", TRUE)
        m == RegexGroup(h.rest, "m", TRUE)
        s == RegexGroup(m.rest, "s", FALSE)
    IN  IF s.rest # <<>> THEN InputError(time, "time")
        ELSE Ok(HMS(GroupOrZero(h.group), GroupOrZero(m.group), GroupOrZero(s.group)))

\* _parse_time_with_colons reading two parts as hours:minutes
_parse_time_with_colons_HoursMinutes(time) ==
    LET parts == Split(time, ":")
    IN  IF Len(parts) = 2
        THEN IF IsFloat(parts[1]) /\ IsFloat(parts[2])
             THEN Ok(HMS(FloatVal(parts[1]), FloatVal(parts[2]), FZero))
             ELSE FloatValueError
        ELSE IF Len(parts) = 3
        THEN IF IsFloat(parts[1]) /\ IsFloat(parts[2]) /\ IsFloat(parts[3])
             THEN Ok(HMS(FloatVal(parts[1]), FloatVal(parts[2]), FloatVal(parts[3])))
             ELSE FloatValueError
        ELSE InputError(time, "time")

_parse_time_with_colons(time) ==
    LET parts == Split(time, ":")
    IN  IF Len(parts) = 2
        THEN IF IsFloat(parts[1]) /\ IsFloat(parts[2])
             THEN Ok(MS(FloatVal(parts[1]), FloatVal(parts[2])))
             ELSE FloatValueError
        ELSE IF Len(parts) = 3
        THEN IF IsFloat(parts[1]) /\ IsFloat(parts[2]) /\ IsFloat(parts[3])
             THEN Ok(HMS(FloatVal(parts[1]), FloatVal(parts[2]), FloatVal(parts[3])))
             ELSE FloatValueError
        ELSE InputError(time, "time")

time_str_to_minutes(s) ==
    LET time == Strip(s)
    IN  IF ContainsAny(time, {"h", "m", "s"}) THEN _parse_time_with_letters(time)
        ELSE IF Contains(time, ":") THEN _parse_time_with_colons(time)
        ELSE IF IsFloat(time) THEN Ok(FloatVal(time))
        ELSE InputError(time, "time")

(***************************************************************************)
(* pace_str_to_minutes                                                     *)
(***************************************************************************)
\* the plain-number fallback
PacePlainNumber(pace) ==
    IF IsFloat(pace) THEN Ok(FloatVal(pace)) ELSE InputError(pace, "pace")

pace_str_to_minutes(s) ==
    LET pace == Strip(s)
        parts == Split(pace, ":")
    IN  IF Contains(pace, ":") /\ Len(parts) = 2
        THEN IF IsFloat(parts[1]) /\ IsFloat(parts[2])
             THEN Ok(MS(FloatVal(parts[1]), FloatVal(parts[2])))
             ELSE FloatValueError
        ELSE PacePlainNumber(pace)

(***************************************************************************)
(* minutes_to_time_str                                                     *)
(***************************************************************************)
\* round(x) for a float x >= 0: the nearest int, the even one on a tie
RoundToInt(x) ==
    IF x.e >= 0 THEN PyInt(x)
    ELSE LET half == BBit(x.m, -x.e - 1) = 1
             more == ~BLowBitsZero(x.m, -x.e - 1)
         IN  IF half /\ (more \/ PyInt(x) % 2 = 1) THEN PyInt(x) + 1 ELSE PyInt(x)

\* WholeSeconds rounding to the nearest second instead of truncating
WholeSeconds_Rounded(secs) == RoundToInt(FMul(secs, Sixty))

\* int(secs * 60) for the fractional minute secs
WholeSeconds(secs) == PyInt(FMul(secs, Sixty))

\* minutes_to_time_str taking the short form up to and including 60 minutes
minutes_to_time_str_UpTo60(minutes, show_hours) ==
    IF FLe(minutes, Sixty) \/ ~show_hours
    THEN CHOOSE r1 \in {IntToStr(PyInt(dm[1])) \o <<":">> \o Pad2(WholeSeconds(dm[2]))
         : dm \in {DivMod(minutes, One)}} : TRUE
    ELSE CHOOSE r1 \in {
         CHOOSE r2 \in {
                 IntToStr(PyInt(hr[1])) \o <<":">> \o Pad2(PyInt(dm[1])) \o <<":">>
                 \o Pad2(WholeSeconds(dm[2]))
         : dm \in {DivMod(hr[2], One)}} : TRUE
         : hr \in {DivMod(minutes, Sixty)}} : TRUE

minutes_to_time_str(minutes, show_hours) ==
    IF FLt(minutes, Sixty) \/ ~show_hours
    THEN CHOOSE r1 \in {IntToStr(PyInt(dm[1])) \o <<":">> \o Pad2(WholeSeconds(dm[2]))
         : dm \in {DivMod(minutes, One)}} : TRUE
    ELSE CHOOSE r1 \in {
         CHOOSE r2 \in {
                 IntToStr(PyInt(hr[1])) \o <<":">> \o Pad2(PyInt(dm[1])) \o <<":">>
                 \o Pad2(WholeSeconds(dm[2]))
         : dm \in {DivMod(hr[2], One)}} : TRUE
         : hr \in {DivMod(minutes, Sixty)}} : TRUE

(***************************************************************************)
(* calculate_metrics                                                       *)
(***************************************************************************)
\* truth value of an argument: None and "" are false
Truthy(x) == x # None /\ x # <<>>

\* the branch of the if-chain that the three arguments select
Branch(distance, time, pace) ==
    IF Truthy(distance) /\ Truthy(time) /\ ~Truthy(pace) THEN "pace"
    ELSE IF Truthy(distance) /\ Truthy(pace) /\ ~Truthy(time) THEN "time"
    ELSE IF Truthy(time) /\ Truthy(pace) /\ ~Truthy(distance) THEN "distance"
    ELSE "invalid"

\* raise ValueError("Exactly two of distance, time, and pace must be provided")
InvalidArguments ==
    [kind |-> "ValueError",
     msg |-> "Exactly two of distance, time, and pace must be provided"]

\* a / b on floats: ZeroDivisionError when b is zero
FloatDiv(a, b) == IF b = FZero THEN [kind |-> "ZeroDivisionError"] ELSE Ok(FDiv(a, b))

\* 60 / pace_mins if pace_mins > 0 else 0
SpeedKmh(pace_mins) == IF FLt(FZero, pace_mins) THEN FDiv(Sixty, pace_mins) ELSE FZero

\* common_distances of _calculate_splits, each with its key f"{dist}km"
SplitDistances ==
    << [name |-> "1km", dist |-> FOfInt(1)],
       [name |-> "5km", dist |-> FOfInt(5)],
       [name |-> "10km", dist |-> FOfInt(10)],
       [name |-> "21.0975km", dist |-> Float(210975, 10000)],
       [name |-> "42.195km", dist |-> Float(42195, 1000)] >>

\* one entry of splits or projected_times: the time for dist at the pace,
\* shown with hours when dist >= 10
DistanceEntry(d, pace_mins) ==
    [name |-> d.name,
     text |-> minutes_to_time_str(FMul(d.dist, pace_mins), FLe(FOfInt(10), d.dist))]

\* a dict is the sequence of its items, in insertion order
_calculate_splits(pace_mins) ==
    [i \in 1..Len(SplitDistances) |-> DistanceEntry(SplitDistances[i], pace_mins)]

\* common_distances of _calculate_projected_times
ProjectedDistances == SubSeq(SplitDistances, 2, Len(SplitDistances))

_calculate_projected_times(distance_km, time_mins, pace_mins) ==
    LET others == SelectSeq(ProjectedDistances, LAMBDA d : d.dist # distance_km)
    IN  [i \in 1..Len(others) |-> DistanceEntry(others[i], pace_mins)]

\* PaceCalculator.TRAINING_ZONES, in insertion order
TRAINING_ZONES ==
    << [name |-> "Easy", min_mult |-> Float(115, 100), max_mult |-> Float(125, 100)],
       [name |-> "Threshold", min_mult |-> Float(105, 100), max_mult |-> Float(115, 100)],
       [name |-> "Tempo", min_mult |-> FOfInt(1), max_mult |-> Float(105, 100)],
       [name |-> "VO2 Max", min_mult |-> Float(9, 10), max_mult |-> FOfInt(1)],
       [name |-> "Speed", min_mult |-> Float(8, 10), max_mult |-> Float(9, 10)] >>

_calculate_training_zones(threshold_pace) ==
    [i \in 1..Len(TRAINING_ZONES) |->
        [name |-> TRAINING_ZONES[i].name,
         text |-> minutes_to_time_str(FMul(threshold_pace, TRAINING_ZONES[i].min_mult), FALSE)
                    \o <<" ", "-", " ">>
                    \o minutes_to_time_str(FMul(threshold_pace, TRAINING_ZONES[i].max_mult),
                                           FALSE)]]

\* The part of calculate_metrics after the if-chain: the record returned.
\* The else branch of speed_kmh gives the int 0, which equals the float 0.0.
DerivedMetrics(dist_km, time_mins, pace_mins) ==
    [kind |-> "RunningMetrics",
     distance_km |-> dist_km,
     time_minutes |-> time_mins,
     pace_min_per_km |-> pace_mins,
     speed_kmh |-> SpeedKmh(pace_mins),
     splits |-> _calculate_splits(pace_mins),
     projected_times |-> _calculate_projected_times(dist_km, time_mins, pace_mins),
     training_zones |-> _calculate_training_zones(pace_mins)]

\* The two parser calls of a branch, in the order the code makes them, then
\* the third value computed from them.  A parser that raises ends the call:
\* the second parser is then not invoked.  invoked lists the parsers called.
PaceBranch(distance, time) ==
    CHOOSE r1 \in {
        IF d.kind # "ok" THEN [ret |-> d, invoked |-> <<"distance">>]
        ELSE CHOOSE r2 \in {
            IF t.kind # "ok" THEN [ret |-> t, invoked |-> <<"distance", "time">>]
            ELSE CHOOSE r3 \in {
                 [ret |-> IF p.kind # "ok" THEN p
                         ELSE DerivedMetrics(d.val, t.val, p.val),
                 invoked |-> <<"distance", "time">>]
                 : p \in {FloatDiv(t.val, d.val)}} : TRUE
             : t \in {time_str_to_minutes(time)}} : TRUE
    : d \in {distance_str_to_km(distance)}} : TRUE

\* TimeBranch with the time computed as a sum instead of a product
TimeBranch_Sum(distance, pace) ==
    CHOOSE r1 \in {
        IF d.kind # "ok" THEN [ret |-> d, invoked |-> <<"distance">>]
        ELSE CHOOSE r2 \in {
            IF p.kind # "ok" THEN [ret |-> p, invoked |-> <<"distance", "pace">>]
            ELSE CHOOSE r3 \in {
                 [ret |-> DerivedMetrics(d.val, time_mins, p.val),
                 invoked |-> <<"distance", "pace">>]
                 : time_mins \in {FAdd(d.val, p.val)}} : TRUE
             : p \in {pace_str_to_minutes(pace)}} : TRUE
    : d \in {distance_str_to_km(distance)}} : TRUE

TimeBranch(distance, pace) ==
    CHOOSE r1 \in {
        IF d.kind # "ok" THEN [ret |-> d, invoked |-> <<"distance">>]
        ELSE CHOOSE r2 \in {
            IF p.kind # "ok" THEN [ret |-> p, invoked |-> <<"distance", "pace">>]
            ELSE CHOOSE r3 \in {
                 [ret |-> DerivedMetrics(d.val, time_mins, p.val),
                 invoked |-> <<"distance", "pace">>]
                 : time_mins \in {FMul(d.val, p.val)}} : TRUE
             : p \in {pace_str_to_minutes(pace)}} : TRUE
    : d \in {distance_str_to_km(distance)}} : TRUE

DistanceBranch(time, pace) ==
    CHOOSE r1 \in {
        IF t.kind # "ok" THEN [ret |-> t, invoked |-> <<"time">>]
        ELSE CHOOSE r2 \in {
            IF p.kind # "ok" THEN [ret |-> p, invoked |-> <<"time", "pace">>]
            ELSE CHOOSE r3 \in {
                 [ret |-> IF d.kind # "ok" THEN d
                         ELSE DerivedMetrics(d.val, t.val, p.val),
                 invoked |-> <<"time", "pace">>]
                 : d \in {FloatDiv(t.val, p.val)}} : TRUE
             : p \in {pace_str_to_minutes(pace)}} : TRUE
    : t \in {time_str_to_minutes(time)}} : TRUE

calculate_metrics(distance, time, pace) ==
    LET b == Branch(distance, time, pace)
    IN  CASE b = "pace" -> PaceBranch(distance, time)
          [] b = "time" -> TimeBranch(distance, pace)
          [] b = "distance" -> DistanceBranch(time, pace)
          [] OTHER -> [ret |-> InvalidArguments, invoked |-> <<>>]

(***************************************************************************)
(* _is_likely_time and main                                                *)
(***************************************************************************)
_is_likely_time(s) ==
    LET value == Lower(Strip(s))
    IN  IF InUnits(value) THEN FALSE
        ELSE IF ContainsAny(value, {"h", "m", "s", ":"}) THEN TRUE
        ELSE IF Contains(value, ":") THEN TRUE
        ELSE FALSE

\* the distance, time and pace that main hands to calculate_metrics
Route(first_value, preposition, second_value) ==
    IF preposition = "in"
    THEN [distance |-> first_value, time |-> second_value, pace |-> None]
    ELSE IF _is_likely_time(first_value)
         THEN [distance |-> None, time |-> first_value, pace |-> second_value]
         ELSE [distance |-> first_value, time |-> None, pace |-> second_value]

\* main after argument parsing: the routed arguments, what calculate_metrics
\* returned or raised, and the exit status
main(first_value, preposition, second_value) ==
    CHOOSE r1 \in {
    CHOOSE r2 \in {
         [kind |-> "exit",
         code |-> IF m.ret.kind = "RunningMetrics" THEN 0 ELSE 1,
         routed |-> r,
         outcome |-> m.ret,
         invoked |-> m.invoked]
    : m \in {calculate_metrics(r.distance, r.time, r.pace)}} : TRUE
    : r \in {Route(first_value, preposition, second_value)}} : TRUE

(***************************************************************************)
(* Inputs.                                                                 *)
(***************************************************************************)
\* every string over the alphabet cs of length at most n
StringsUpTo(cs, n) == UNION {[1..k -> cs] : k \in 0..n}

\* characters of the strings generated for the parsers
Alphabet == {"0", "1", "5", ".", ":", " ", "k", "m", "h", "s", "i", "x"}

\* the documented distance formats, the spec's examples, and edge cases
DistanceExamples ==
    { <<"1", "0", "k", "m">>,
      <<"m", "a", "r", "a", "t", "h", "o", "n">>,
      <<"h", "a", "l", "f", "-", "m", "a", "r", "a", "t", "h", "o", "n">>,
      <<"4", "2", ".", "1", "9", "5", "k", "m">>,
      <<"2", "1", ".", "0", "9", "7", "5", "k", "m">>,
      <<"2", "m", "i">>,
      <<"1", "0", "K">>,
      <<" ", "5", "K", "m", " ">>,
      <<"4", "0", "0", "m">>,
      <<"1", "5", "0", "0", "m">>,
      <<"3", "h", "m">>,
      <<"2", "m", "a", "r", "a", "t", "h", "o", "n">>,
      <<"-", "5">>,
      <<"-", "5", "k", "m">>,
      <<"0", "k", "m">>,
      <<"a", "b", "c">> }

TimeExamples ==
    { <<"4", "5", ":", "0", "0">>,
      <<"1", ":", "3", "0", ":", "0", "0">>,
      <<"1", ":", "3", "0", ":", "4", "5">>,
      <<"1", "h", "3", "0", "m", "2", "0", "s">>,
      <<"1", "h", "3", "0", "m">>,
      <<"9", "0", "m">>,
      <<"1", ".", "5", "h">>,
      <<"2", "0", "s">>,
      <<"1", ".", "5", "s">>,
      <<"3", "0", "m", "1", "h">>,
      <<"1", "H", "3", "0", "M">>,
      <<"1", "h", ":", "3", "0">>,
      <<"1", ":", "2", ":", "3", ":", "4">>,
      <<"1", ":", "x", "x", ":", "3">>,
      <<"a", ":", "b">>,
      <<"-", "1", ":", "3", "0">>,
      <<"a", "b", "c">> }

PaceExamples ==
    { <<"4", ":", "3", "0">>,
      <<"5", ":", "0", "0">>,
      <<"5", ".", "5">>,
      <<"4", ".", "5">>,
      <<"1", ":", "2", ":", "3">>,
      <<"a", ":", "b">>,
      <<"-", "4", ":", "3", "0">>,
      <<"a", "b", "c">> }

\* strings handed to the parsers and to _is_likely_time
ParserStrings ==
    StringsUpTo(Alphabet, MaxLen) \cup DistanceExamples \cup TimeExamples \cup PaceExamples

\* strings handed to calculate_metrics and main
ArgStrings ==
    { <<>>,
      <<"0">>,
      <<"5">>,
      <<"1", "0", "k", "m">>,
      <<"m", "a", "r", "a", "t", "h", "o", "n">>,
      <<"5", "k", "m">>,
      <<"2", "m", "i">>,
      <<"-", "5">>,
      <<"4", "5", ":", "0", "0">>,
      <<"1", ":", "3", "0", ":", "0", "0">>,
      <<"a", ":", "b">>,
      <<"1", "h", "3", "0", "m">>,
      <<"4", ":", "3", "0">>,
      <<"4", ":", "2", "0">>,
      <<"4", ".", "5">> }

\* math.nextafter(a, 0.0) for a float a > 0: the next float toward zero
Before(a) ==
    IF a.m = <<1>> THEN Canon(1, BSub(BShl(<<1>>, Precision), <<1>>), a.e - Precision)
    ELSE Canon(1, BSub(BShl(a.m, Precision - BBitLen(a.m)), <<1>>),
               a.e - (Precision - BBitLen(a.m)))

\* minutes of the clock values: the first few, and those around the hour
ClockMinutes == 0..5 \cup 58..MaxMinutes

\* what the clock texts M:SS parse to: minutes + seconds / 60
ClockValues == {MS(FOfInt(m), FOfInt(s)) : m \in ClockMinutes, s \in 0..59}

\* tenths of a minute
TenthValues == {Float(n, 10) : n \in 0..(10 * MaxMinutes + 9)}

\* quarters of a minute, on which the float arithmetic is exact
QuarterValues == {Float(n, 4) : n \in 0..(4 * MaxMinutes + 3)}

\* the values the spec discusses (59.999, the marathon at 4:30 pace as a
\* literal and as the product the program computes), 120 and 180 minutes,
\* and the last float before a minute, an hour, two hours
EdgeValues ==
    { Float(59999, 1000),
      Float(1898775, 10000),
      FMul(Float(42195, 1000), Float(45, 10)),
      FOfInt(120),
      FOfInt(180),
      Before(One),
      Before(Sixty),
      Before(FOfInt(120)) }

\* minute values handed to minutes_to_time_str
FormatValues == ClockValues \cup TenthValues \cup QuarterValues \cup EdgeValues

(***************************************************************************)
(* The state: the last call made on a PaceCalculator, what it returned or  *)
(* raised, and the parsers calculate_metrics invoked on the way.  The      *)
(* calculator keeps nothing between calls and every function of it is a    *)
(* function of its arguments alone, so a behaviour is one call made on a   *)
(* freshly constructed calculator.                                         *)
(***************************************************************************)
VARIABLES call, ret, invoked

vars == <<call, ret, invoked>>

Init ==
    /\ call = [fn |-> "__init__"]
    /\ ret = [kind |-> "none"]
    /\ invoked = <<>>

\* no call has been made yet
Fresh == call.fn = "__init__"

DistanceStrToKm ==
    /\ Fresh
    /\ \E s \in ParserStrings :
        /\ call' = [fn |-> "distance_str_to_km", s |-> s]
        /\ ret' = distance_str_to_km(s)
        /\ invoked' = <<>>

TimeStrToMinutes ==
    /\ Fresh
    /\ \E s \in ParserStrings :
        /\ call' = [fn |-> "time_str_to_minutes", s |-> s]
        /\ ret' = time_str_to_minutes(s)
        /\ invoked' = <<>>

PaceStrToMinutes ==
    /\ Fresh
    /\ \E s \in ParserStrings :
        /\ call' = [fn |-> "pace_str_to_minutes", s |-> s]
        /\ ret' = pace_str_to_minutes(s)
        /\ invoked' = <<>>

MinutesToTimeStr ==
    /\ Fresh
    /\ \E minutes \in FormatValues, show_hours \in BOOLEAN :
        /\ call' = [fn |-> "minutes_to_time_str", minutes |-> minutes,
                    show_hours |-> show_hours]
        /\ ret' = [kind |-> "str", val |-> minutes_to_time_str(minutes, show_hours)]
        /\ invoked' = <<>>

CalculateMetrics ==
    /\ Fresh
    /\ \E distance, time, pace \in ArgStrings \cup {None} :
        \E m \in {calculate_metrics(distance, time, pace)} :
            /\ call' = [fn |-> "calculate_metrics", distance |-> distance,
                        time |-> time, pace |-> pace]
            /\ ret' = m.ret
            /\ invoked' = m.invoked

IsLikelyTime ==
    /\ Fresh
    /\ \E s \in ParserStrings :
        /\ call' = [fn |-> "_is_likely_time", s |-> s]
        /\ ret' = [kind |-> "bool", val |-> _is_likely_time(s)]
        /\ invoked' = <<>>

Main ==
    /\ Fresh
    /\ \E first_value, second_value \in ArgStrings, preposition \in {"in", "at"} :
        \E m \in {main(first_value, preposition, second_value)} :
            /\ call' = [fn |-> "main", first_value |-> first_value,
                        preposition |-> preposition, second_value |-> second_value]
            /\ ret' = [kind |-> "exit", code |-> m.code, routed |-> m.routed,
                        outcome |-> m.outcome]
            /\ invoked' = m.invoked

Next ==
    \/ DistanceStrToKm
    \/ TimeStrToMinutes
    \/ PaceStrToMinutes
    \/ MinutesToTimeStr
    \/ CalculateMetrics
    \/ IsLikelyTime
    \/ Main

Spec == Init /\ [][Next]_vars

(***************************************************************************)
(* Exact comparisons for the properties below: the distance of two floats  *)
(* as an unrounded dyadic number [m, e] (m * 2^e), and the order of two    *)
(* such numbers.                                                           *)
(***************************************************************************)
AbsDiff(a, b) ==
    CHOOSE r1 \in {
         [m |-> IF a.s # b.s THEN BAdd(x.ma, x.mb)
               ELSE IF BCmp(x.ma, x.mb) >= 0 THEN BSub(x.ma, x.mb)
               ELSE BSub(x.mb, x.ma),
         e |-> x.e]
    : x \in {Aligned(a, b)}} : TRUE

DyadicLe(p, q) == CHOOSE r1 \in {BCmp(x.ma, x.mb) <= 0 : x \in {Aligned(p, q)}} : TRUE

(***************************************************************************)
(* C1.  calculate_metrics(distance=d, time=t) on strings the parsers       *)
(* accept, the parsed distance being a usable divisor (not zero), returns  *)
(* a record with distance_km = parseDistance(d), time_minutes =            *)
(* parseTime(t) and pace_min_per_km = time_minutes / distance_km; calling  *)
(* it again with the same distance and a pace string that parses to that   *)
(* pace yields the same time_minutes.  Likewise the time+pace call, the    *)
(* parsed pace not zero, returns distance_km = time_minutes / pace.        *)
(***************************************************************************)
C1_PaceCall ==
    /\ call.fn = "calculate_metrics"
    /\ call.pace = None
    /\ call.distance # None /\ distance_str_to_km(call.distance).kind = "ok"
    /\ call.time # None /\ time_str_to_minutes(call.time).kind = "ok"
    /\ distance_str_to_km(call.distance).val # FZero

C1_DistanceCall ==
    /\ call.fn = "calculate_metrics"
    /\ call.distance = None
    /\ call.time # None /\ time_str_to_minutes(call.time).kind = "ok"
    /\ call.pace # None /\ pace_str_to_minutes(call.pace).kind = "ok"
    /\ pace_str_to_minutes(call.pace).val # FZero

\* pace strings for the second call: those of the model, and the paces
\* str() prints for a marathon in 45:00 and for 5 km in 45:00
C1_PaceStrings ==
    ArgStrings \cup
    { <<"1", ".", "0", "6", "6", "4", "7", "7", "0", "7", "0", "7", "4", "2", "9", "7",
        "9">>,
      <<"9", ".", "0">> }

\* those that parse to the pace of the returned record
C1_PaceStringsOfResult ==
    {p \in C1_PaceStrings : pace_str_to_minutes(p) = Ok(ret.pace_min_per_km)}

\* the values the calls return
C1_Derive ==
    /\ C1_PaceCall =>
        /\ ret.kind = "RunningMetrics"
        /\ ret.distance_km = distance_str_to_km(call.distance).val
        /\ ret.time_minutes = time_str_to_minutes(call.time).val
        /\ ret.pace_min_per_km = FDiv(ret.time_minutes, ret.distance_km)
    /\ C1_DistanceCall =>
        /\ ret.kind = "RunningMetrics"
        /\ ret.time_minutes = time_str_to_minutes(call.time).val
        /\ ret.pace_min_per_km = pace_str_to_minutes(call.pace).val
        /\ ret.distance_km = FDiv(ret.time_minutes, ret.pace_min_per_km)

\* the time_minutes of the second call, made with the pace string p
C1_TimeAgain(p) == calculate_metrics(call.distance, None, p).ret.time_minutes

\* the claim as stated: the second call yields the same time_minutes
C1_DeriveAndRoundTrip ==
    /\ C1_Derive
    /\ C1_PaceCall =>
        \A p \in C1_PaceStringsOfResult : C1_TimeAgain(p) = ret.time_minutes

\* a and b differ by at most 2^-52 times the magnitude of b
C1_Close(a, b) == DyadicLe(AbsDiff(a, b), [m |-> b.m, e |-> b.e - 52])

\* the claim as amended: the second call yields the time_minutes of the
\* first within floating-point tolerance, a relative difference of at most
\* 2^-52, and so does the product distance_km * pace_min_per_km for every
\* pace, whether or not one of the pace strings above writes it
C1_DeriveAndRoundTripClose ==
    /\ C1_Derive
    /\ C1_PaceCall =>
        /\ \A p \in C1_PaceStringsOfResult : C1_Close(C1_TimeAgain(p), ret.time_minutes)
        /\ C1_Close(FMul(ret.distance_km, ret.pace_min_per_km), ret.time_minutes)

\* a marathon in 45:00 gave the pace 1.066477070742979; the second call,
\* made with that pace, returned 44.99999999999999 and not 45.0
C1_Witness ==
    /\ C1_PaceCall
    /\ call.distance = <<"m", "a", "r", "a", "t", "h", "o", "n">>
    /\ call.time = <<"4", "5", ":", "0", "0">>
    /\ ret.kind = "RunningMetrics"
    /\ ret.time_minutes = FOfInt(45)
    /\ C1_PaceStringsOfResult # {}
    /\ \A p \in C1_PaceStringsOfResult : C1_TimeAgain(p) = Before(FOfInt(45))

(***************************************************************************)
(* C2.  Every record calculate_metrics returns has distance_km > 0,        *)
(* time_minutes > 0 and pace_min_per_km > 0.                               *)
(***************************************************************************)
C2_RecordIsPositive ==
    (call.fn = "calculate_metrics" /\ ret.kind = "RunningMetrics") =>
        /\ FLt(FZero, ret.distance_km)
        /\ FLt(FZero, ret.time_minutes)
        /\ FLt(FZero, ret.pace_min_per_km)
(***************************************************************************)
(* C3.  calculate_metrics fails with the invalid-arguments error exactly   *)
(* when the number of non-null arguments is not two, and then no parser    *)
(* has been invoked; with exactly two non-null arguments the parsers       *)
(* invoked are those of the two arguments given, in the code's order.      *)
(***************************************************************************)
C3_NonNull == {a \in {"distance", "time", "pace"} : call[a] # None}

\* the parsers of the arguments given, distance before time before pace
C3_ParsersOfArguments ==
    SelectSeq(<<"distance", "time", "pace">>, LAMBDA a : a \in C3_NonNull)

C3_InvalidArgumentsIffNotTwo ==
    call.fn = "calculate_metrics" =>
        /\ (ret = InvalidArguments) <=> (Cardinality(C3_NonNull) # 2)
        /\ ret = InvalidArguments => invoked = <<>>
        /\ Cardinality(C3_NonNull) = 2 =>
             /\ invoked # <<>>
             /\ invoked = SubSeq(C3_ParsersOfArguments, 1, Len(invoked))

(***************************************************************************)
(* C4.  Each parser either returns a number or raises its own InputError   *)
(* (input_type distance / time / pace); nothing else escapes a parser.     *)
(***************************************************************************)
C4_InputType ==
    CASE call.fn = "distance_str_to_km" -> "distance"
      [] call.fn = "time_str_to_minutes" -> "time"
      [] call.fn = "pace_str_to_minutes" -> "pace"

C4_OnlyInputErrorEscapes ==
    call.fn \in {"distance_str_to_km", "time_str_to_minutes", "pace_str_to_minutes"} =>
        \/ ret.kind = "ok"
        \/ ret.kind = "InputError" /\ ret.input_type = C4_InputType


(***************************************************************************)
(* C5.  distance_str_to_km on the lowercased, trimmed input: (1) a unit    *)
(* table token gives its table value; (2) otherwise the first token in     *)
(* table order that is a suffix is the only one applied: number(prefix)    *)
(* times its factor, and the distance InputError when the prefix is no     *)
(* number; (3) otherwise a bare number is kilometres; (4) otherwise the    *)
(* distance InputError.  "10k" is 10, "5k" is 5, "marathon" and            *)
(* "42.195km" are 42.195.                                                  *)
(***************************************************************************)
C5_Input == Strip(Lower(call.s))

\* the positions in the table of the tokens that are a suffix of the input
C5_SuffixTokens ==
    {i \in 1..Len(DISTANCE_UNITS) : EndsWith(C5_Input, DISTANCE_UNITS[i].unit)}

C5_FirstSuffixToken == CHOOSE i \in C5_SuffixTokens : \A j \in C5_SuffixTokens : i <= j

C5_Prefix ==
    SubSeq(C5_Input, 1, Len(C5_Input) - Len(DISTANCE_UNITS[C5_FirstSuffixToken].unit))

C5_Expected ==
    IF \E i \in 1..Len(DISTANCE_UNITS) : DISTANCE_UNITS[i].unit = C5_Input
    THEN Ok(DISTANCE_UNITS[CHOOSE i \in 1..Len(DISTANCE_UNITS) :
                               DISTANCE_UNITS[i].unit = C5_Input].multiplier)
    ELSE IF C5_SuffixTokens # {}
    THEN IF IsFloat(C5_Prefix)
         THEN Ok(FMul(FloatVal(C5_Prefix), DISTANCE_UNITS[C5_FirstSuffixToken].multiplier))
         ELSE InputError(C5_Input, "distance")
    ELSE IF IsFloat(C5_Input) THEN Ok(FloatVal(C5_Input))
    ELSE InputError(C5_Input, "distance")

C5_DistancePrecedence ==
    call.fn = "distance_str_to_km" =>
        /\ ret = C5_Expected
        /\ call.s = <<"1", "0", "k">> => ret = Ok(FOfInt(10))
        /\ call.s = <<"5", "k">> => ret = Ok(FOfInt(5))
        /\ call.s = <<"m", "a", "r", "a", "t", "h", "o", "n">> => ret = Ok(Float(42195, 1000))
        /\ call.s = <<"4", "2", ".", "1", "9", "5", "k", "m">> => ret = Ok(Float(42195, 1000))

\* "3hm": the first suffix token is "m", its prefix "3h" is no number, and
\* the later token "hm" (3 half-marathons) is not tried
C5_Witness ==
    /\ call.fn = "distance_str_to_km"
    /\ call.s = <<"3", "h", "m">>
    /\ Cardinality(C5_SuffixTokens) = 2
    /\ DISTANCE_UNITS[C5_FirstSuffixToken].unit = <<"m">>
    /\ ret = InputError(<<"3", "h", "m">>, "distance")


(***************************************************************************)
(* C6.  time_str_to_minutes on the trimmed input: a string with one of     *)
(* the letters h, m, s must be <hours>h? <minutes>m? <seconds>s? in that   *)
(* order and nothing else (hours and minutes possibly fractional, seconds  *)
(* an unsigned integer), giving hours*60 + minutes + seconds/60 with       *)
(* missing components 0; otherwise a string with a colon has 2 parts       *)
(* (minutes, seconds) or 3 parts (hours, minutes, seconds), any other      *)
(* count failing; otherwise the string is a bare number of minutes.        *)
(* "1h30m20s" is 90 + 20/60 and "1:30:45" is 90.75.                        *)
(***************************************************************************)
C6_Input == Strip(call.s)

\* x is empty, or a number followed by the letter
C6_IsComponent(x, letter, fractional) ==
    \/ x = <<>>
    \/ /\ x[Len(x)] = letter
       /\ LET num == SubSeq(x, 1, Len(x) - 1)
              parts == Split(num, ".")
          IN  /\ Len(parts) = 1 \/ (fractional /\ Len(parts) = 2)
              /\ \A i \in 1..Len(parts) : parts[i] # <<>> /\ AllDigits(parts[i])

C6_ComponentVal(x) == IF x = <<>> THEN FZero ELSE DecimalVal(1, SubSeq(x, 1, Len(x) - 1))

\* the ways to cut the input into an hours, a minutes and a seconds component
C6_Cuts ==
    {c \in (0..Len(C6_Input)) \X (0..Len(C6_Input)) :
        /\ c[1] <= c[2]
        /\ C6_IsComponent(SubSeq(C6_Input, 1, c[1]), "h", TRUE)
        /\ C6_IsComponent(SubSeq(C6_Input, c[1] + 1, c[2]), "m", TRUE)
        /\ C6_IsComponent(SubSeq(C6_Input, c[2] + 1, Len(C6_Input)), "s", FALSE)}

\* hours*60 + minutes + seconds/60, in float arithmetic from left to right
C6_Minutes(hours, minutes, seconds) ==
    FAdd(FAdd(FMul(hours, FOfInt(60)), minutes), FDiv(seconds, FOfInt(60)))

C6_Parts == Split(C6_Input, ":")

C6_PartsAreNumbers == \A i \in 1..Len(C6_Parts) : IsFloat(C6_Parts[i])

C6_TimeDispatch ==
    call.fn = "time_str_to_minutes" =>
        /\ IF ContainsAny(C6_Input, {"h", "m", "s"})
           THEN IF C6_Cuts = {} THEN ret.kind # "ok"
                ELSE \A c \in C6_Cuts :
                        ret = Ok(C6_Minutes(
                                C6_ComponentVal(SubSeq(C6_Input, 1, c[1])),
                                C6_ComponentVal(SubSeq(C6_Input, c[1] + 1, c[2])),
                                C6_ComponentVal(SubSeq(C6_Input, c[2] + 1, Len(C6_Input)))))
           ELSE IF Contains(C6_Input, ":")
           THEN /\ Len(C6_Parts) \notin {2, 3} => ret.kind # "ok"
                /\ (Len(C6_Parts) = 2 /\ C6_PartsAreNumbers) =>
                      ret = Ok(C6_Minutes(FZero, FloatVal(C6_Parts[1]),
                                          FloatVal(C6_Parts[2])))
                /\ (Len(C6_Parts) = 3 /\ C6_PartsAreNumbers) =>
                      ret = Ok(C6_Minutes(FloatVal(C6_Parts[1]), FloatVal(C6_Parts[2]),
                                          FloatVal(C6_Parts[3])))
           ELSE IF IsFloat(C6_Input) THEN ret = Ok(FloatVal(C6_Input))
                ELSE ret.kind # "ok"
        /\ call.s = <<"1", "h", "3", "0", "m", "2", "0", "s">> =>
              ret = Ok(FAdd(FOfInt(90), Float(20, 60)))
        /\ call.s = <<"1", ":", "3", "0", ":", "4", "5">> => ret = Ok(Float(9075, 100))

\* "1h30m20s" was parsed: all three letter components are present
C6_Witness ==
    /\ call.fn = "time_str_to_minutes"
    /\ call.s = <<"1", "h", "3", "0", "m", "2", "0", "s">>
    /\ C6_Cuts = {<<2, 5>>}
    /\ ret = Ok(FAdd(FOfInt(90), Float(20, 60)))

(***************************************************************************)
(* C7.  minutes_to_time_str(value, useHours) for value >= 0: M:SS when     *)
(* value < 60 or useHours is false, with M = floor(value) and SS the       *)
(* fractional minutes times 60 as a whole number of seconds on two digits; *)
(* otherwise H:MM:SS with H = floor(value/60) and the remaining minutes    *)
(* split the same way.                                                     *)
(***************************************************************************)
\* floor(value / k), for a float value >= 0 and an int k > 0
C7_Floor(value, k) ==
    CHOOSE r1 \in {BToNat(BDivMod(x.ma, x.mb).q) : x \in {Aligned(value, FOfInt(k))}} : TRUE

\* the M:SS text of a minute value, given how the seconds, the float
\* product of the fractional minutes and 60, are made whole
C7_MSS(value, Whole(_), pad) ==
    LET M == C7_Floor(value, 1)
        SS == Whole(FMul(FSub(value, FOfInt(M)), FOfInt(60)))
    IN  (IF pad THEN Pad2(M) ELSE IntToStr(M)) \o <<":">> \o Pad2(SS)

C7_Text(value, useHours, Whole(_)) ==
    IF FLt(value, FOfInt(60)) \/ ~useHours THEN C7_MSS(value, Whole, FALSE)
    ELSE LET H == C7_Floor(value, 60)
         IN  IntToStr(H) \o <<":">> \o C7_MSS(FSub(value, FOfInt(60 * H)), Whole, TRUE)

\* the marathon at 4:30 pace: 42.195 * 4.5 minutes, which is the float 189.8775
C7_Marathon == FMul(Float(42195, 1000), Float(45, 10))

\* the claim as stated: SS is rounded to the nearest second, and the
\* marathon at 4:30 pace reads "3:09:53"
C7_RoundedSeconds ==
    call.fn = "minutes_to_time_str" =>
        /\ ret.val = C7_Text(call.minutes, call.show_hours, RoundToInt)
        /\ (call.minutes = C7_Marathon /\ call.show_hours) =>
              ret.val = <<"3", ":", "0", "9", ":", "5", "3">>

\* the claim as amended: SS is the whole part of the float product (it is
\* truncated, not rounded), and the marathon at 4:30 pace reads "3:09:52".
\* The fractional minutes are those of the float: 1.2 is a float just below
\* 6/5, its fraction times 60 is 11.999999999999998, and it reads "1:11";
\* likewise 5.1 reads "5:05", 1 + 1/60 (what "1:01" parses to) reads "1:00",
\* 4 + 20/60 reads "4:19" and 60 + 40/60 reads "1:00:39".
C7_TruncatedSeconds ==
    call.fn = "minutes_to_time_str" =>
        /\ ret.val = C7_Text(call.minutes, call.show_hours, PyInt)
        /\ (call.minutes = C7_Marathon /\ call.show_hours) =>
              ret.val = <<"3", ":", "0", "9", ":", "5", "2">>
        /\ call.minutes = Float(12, 10) => ret.val = <<"1", ":", "1", "1">>
        /\ call.minutes = Float(51, 10) => ret.val = <<"5", ":", "0", "5">>
        /\ call.minutes = MS(FOfInt(1), FOfInt(1)) => ret.val = <<"1", ":", "0", "0">>
        /\ call.minutes = MS(FOfInt(4), FOfInt(20)) => ret.val = <<"4", ":", "1", "9">>
        /\ (call.minutes = MS(FOfInt(60), FOfInt(40)) /\ call.show_hours) =>
              ret.val = <<"1", ":", "0", "0", ":", "3", "9">>

\* the marathon time was formatted with hours; its seconds are 52.65
C7_Witness ==
    /\ call.fn = "minutes_to_time_str"
    /\ call.minutes = C7_Marathon
    /\ call.minutes = Float(1898775, 10000)
    /\ call.show_hours
    /\ ret.val = <<"3", ":", "0", "9", ":", "5", "2">>

(***************************************************************************)
(* C8.  In the text minutes_to_time_str produces for a value >= 0, the     *)
(* seconds field is between 00 and 59 and, in H:MM:SS form, so is the      *)
(* minutes field: 59.999 does not become "59:60".                          *)
(***************************************************************************)
C8_Fields == Split(ret.val, ":")

\* a two-digit field between 00 and 59
C8_InRange(x) ==
    Len(x) = 2 /\ AllDigits(x) /\ 10 * DigitVal(x[1]) + DigitVal(x[2]) <= 59

C8_FieldsBelow60 ==
    call.fn = "minutes_to_time_str" =>
        /\ Len(C8_Fields) \in {2, 3}
        /\ C8_InRange(C8_Fields[Len(C8_Fields)])
        /\ Len(C8_Fields) = 3 => C8_InRange(C8_Fields[2])
        /\ call.minutes = Float(59999, 1000) => ret.val = <<"5", "9", ":", "5", "9">>

\* the last float before two hours was formatted with hours
C8_Witness ==
    /\ call.fn = "minutes_to_time_str"
    /\ call.show_hours
    /\ call.minutes = Before(FOfInt(120))
    /\ ret.val = <<"1", ":", "5", "9", ":", "5", "9">>

(***************************************************************************)
(* C9.  The text minutes_to_time_str produces for a value v >= 0 is        *)
(* accepted by time_str_to_minutes, which returns a value within one       *)
(* second (1/60 minute) of v.                                              *)
(***************************************************************************)
\* |a - b| <= 1/60, compared exactly
C9_WithinOneSecond(a, b) ==
    CHOOSE r1 \in {DyadicLe([m |-> BMulSmall(d.m, 60), e |-> d.e], [m |-> <<1>>, e |-> 0])
    : d \in {AbsDiff(a, b)}} : TRUE

C9_FormatThenParse ==
    call.fn = "minutes_to_time_str" =>
        LET back == time_str_to_minutes(ret.val)
        IN  /\ back.kind = "ok"
            /\ C9_WithinOneSecond(call.minutes, back.val)

\* an H:MM:SS text was produced from a value that is no whole number of
\* seconds, and parsing it gave a different value
C9_Witness ==
    /\ call.fn = "minutes_to_time_str"
    /\ call.show_hours
    /\ FLe(FOfInt(60), call.minutes)
    /\ Len(Split(ret.val, ":")) = 3
    /\ time_str_to_minutes(ret.val).kind = "ok"
    /\ time_str_to_minutes(ret.val).val # call.minutes

(***************************************************************************)
(* C10.  With the preposition "at", a first value the distance parser      *)
(* accepts (as a positive distance), followed by a valid (positive) pace,  *)
(* is not taken for a time: it is routed to the distance parser and the    *)
(* time is derived.                                                        *)
(***************************************************************************)
C10_DistanceAtPace ==
    /\ call.fn = "main"
    /\ call.preposition = "at"
    /\ distance_str_to_km(call.first_value).kind = "ok"
    /\ FLt(FZero, distance_str_to_km(call.first_value).val)
    /\ pace_str_to_minutes(call.second_value).kind = "ok"
    /\ FLt(FZero, pace_str_to_minutes(call.second_value).val)

C10_DistanceNeverRoutedToTime ==
    C10_DistanceAtPace =>
        /\ ~_is_likely_time(call.first_value)
        /\ ret.routed = [distance |-> call.first_value, time |-> None,
                         pace |-> call.second_value]
        /\ invoked # <<>> /\ invoked[1] = "distance"

====
